---- MODULE Spec2Model ----
(***************************************************************************)
(* A model of the rust-telemetry logger: the level filter and the          *)
(* record-based facade of lib.rs, the global output state of config.rs     *)
(* (sink slot, timestamp override, write_log), the level functions of      *)
(* loggers.rs and the writers of writers/*.rs.  Text is modelled as        *)
(* sequences of bytes (ASCII codes), so that formatting and ANSI           *)
(* stripping are computed as the code computes them.                       *)
(***************************************************************************)
EXTENDS Integers, Sequences, FiniteSets, TLC

\* ------------------------------------------------------------------ bounds

\* The number of log calls (function, macro or log()) started in one run.
MaxCalls == 2

\* The length of the byte sequences given to strip_ansi on its own.
MaxBytes == 5

\* The days since the epoch, from day 0 on, whose seconds are given to the
\* timestamp functions on their own.
MaxDay == 1

\* ------------------------------------------------------------------- bytes

ESC == 27
LF == 10
SP == 32
ByteM == 109

Str_z == <<122>>
\* "\x1b[1mx": a message that carries an escape sequence of its own
Str_bold_x == <<27, 91, 49, 109, 120>>
Str_x == <<120>>

\* "00:00:00.000"
T0 == <<48, 48, 58, 48, 48, 58, 48, 48, 46, 48, 48, 48>>

RECURSIVE Flatten(_)
Flatten(ss) == IF ss = <<>> THEN <<>> ELSE Head(ss) \o Flatten(Tail(ss))

\* sub occurs in s starting at index i
OccursAt(s, sub, i) ==
    /\ i >= 1
    /\ i + Len(sub) - 1 <= Len(s)
    /\ \A k \in 1..Len(sub) : s[i + k - 1] = sub[k]

\* str::contains
Contains(s, sub) == \E i \in 1..(Len(s) + 1) : OccursAt(s, sub, i)

StartsWith(s, pre) == OccursAt(s, pre, 1)

\* the index just after the first occurrence of sub in s at or after from,
\* 0 when there is none
FirstEndFrom(s, sub, from) ==
    LET hits == {i \in from..(Len(s) + 1) : OccursAt(s, sub, i)}
    IN  IF hits = {} THEN 0
        ELSE (CHOOSE i \in hits : \A j \in hits : i <= j) + Len(sub)

\* the texts of subs occur in s one after the other, in the order of subs
RECURSIVE OccurInOrderFrom(_, _, _)
OccurInOrderFrom(s, subs, from) ==
    IF subs = <<>> THEN TRUE
    ELSE LET e == FirstEndFrom(s, Head(subs), from)
         IN  e # 0 /\ OccurInOrderFrom(s, Tail(subs), e)

OccurInOrder(s, subs) == OccurInOrderFrom(s, subs, 1)

HasEsc(s) == \E i \in 1..Len(s) : s[i] = ESC

\* ------------------------------------------------------- utils/ansi.rs

\* a loop that tests for 'm' before it looks at in_escape: every 'm' is
\* dropped
RECURSIVE strip_from_every_m(_, _, _, _)
strip_from_every_m(input, i, in_escape, result) ==
    IF i > Len(input) THEN result
    ELSE IF input[i] = ESC THEN strip_from_every_m(input, i + 1, TRUE, result)
    ELSE IF input[i] = ByteM THEN strip_from_every_m(input, i + 1, FALSE, result)
    ELSE IF in_escape
         THEN strip_from_every_m(input, i + 1, TRUE, result)
         ELSE strip_from_every_m(input, i + 1, FALSE, Append(result, input[i]))

\* a loop that ends the escape at 'm' and pushes that 'm'
RECURSIVE strip_from_keep_m(_, _, _, _)
strip_from_keep_m(input, i, in_escape, result) ==
    IF i > Len(input) THEN result
    ELSE IF input[i] = ESC THEN strip_from_keep_m(input, i + 1, TRUE, result)
    ELSE IF in_escape /\ input[i] # ByteM
         THEN strip_from_keep_m(input, i + 1, TRUE, result)
         ELSE strip_from_keep_m(input, i + 1, FALSE, Append(result, input[i]))

\* for byte in input: ESC sets in_escape; inside an escape 'm' ends it and
\* every byte is skipped; outside, the byte is pushed
RECURSIVE strip_from(_, _, _, _)
strip_from(input, i, in_escape, result) ==
    IF i > Len(input) THEN result
    ELSE IF input[i] = ESC THEN strip_from(input, i + 1, TRUE, result)
    ELSE IF in_escape
         THEN strip_from(input, i + 1, input[i] # ByteM, result)
         ELSE strip_from(input, i + 1, FALSE, Append(result, input[i]))

strip_ansi(input) == strip_from(input, 1, FALSE, <<>>)

\* ------------------------------------------------------------- lib.rs: Level

Levels == {"Trace", "Debug", "Info", "Warn", "Error", "Off"}

\* #[repr(usize)] enum Level, and `level as usize`
LevelUsize(l) ==
    CASE l = "Trace" -> 0
      [] l = "Debug" -> 1
      [] l = "Info" -> 2
      [] l = "Warn" -> 3
      [] l = "Error" -> 4
      [] l = "Off" -> 5

\* the derived Ord of Level: the order of declaration
LevelOrder == <<"Trace", "Debug", "Info", "Warn", "Error", "Off">>
LevelIndex(l) == CHOOSE i \in 1..Len(LevelOrder) : LevelOrder[i] = l
LevelLeq(a, b) == LevelIndex(a) <= LevelIndex(b)
LevelLt(a, b) == LevelIndex(a) < LevelIndex(b)

as_str(l) ==
    CASE l = "Trace" -> <<84, 82, 65, 67, 69>>
      [] l = "Debug" -> <<68, 69, 66, 85, 71>>
      [] l = "Info" -> <<73, 78, 70, 79>>
      [] l = "Warn" -> <<87, 65, 82, 78>>
      [] l = "Error" -> <<69, 82, 82, 79, 82>>
      [] l = "Off" -> <<79, 70, 70>>

color(l) ==
    CASE l = "Trace" -> <<27, 91, 51, 53, 109>>
      [] l = "Debug" -> <<27, 91, 51, 54, 109>>
      [] l = "Info" -> <<27, 91, 51, 50, 109>>
      [] l = "Warn" -> <<27, 91, 51, 51, 109>>
      [] l = "Error" -> <<27, 91, 51, 49, 109>>
      [] l = "Off" -> <<>>

\* "\x1b[0m"
Reset == <<27, 91, 48, 109>>

\* ------------------------------------------------------------ formatting

RECURSIVE Dec(_)
\* the decimal digits of n, as format!("{}") prints an unsigned integer
Dec(n) == IF n < 10 THEN <<48 + n>> ELSE Append(Dec(n \div 10), 48 + (n % 10))

RECURSIVE ZeroPad(_, _)
\* {:0w}: zeros in front up to the width w, never truncating
ZeroPad(s, w) == IF Len(s) >= w THEN s ELSE ZeroPad(<<48>> \o s, w)

RECURSIVE PadRight(_, _)
\* {:<w}: spaces behind up to the width w, never truncating
PadRight(s, w) == IF Len(s) >= w THEN s ELSE PadRight(Append(s, SP), w)

\* the wall clock: what SystemTime::now() may return (seconds since the
\* epoch and the millisecond part)
Clock == {[secs |-> 45296, millis |-> 7]}

\* a timestamp whose hours count on from the epoch instead of from midnight
ClockText_since_epoch(now) ==
    LET hours == now.secs \div 3600
        minutes == (now.secs % 3600) \div 60
        seconds == now.secs % 60
    IN  ZeroPad(Dec(hours), 2) \o <<58>> \o ZeroPad(Dec(minutes), 2) \o <<58>>
          \o ZeroPad(Dec(seconds), 2) \o <<46>> \o ZeroPad(Dec(now.millis), 3)

\* "{:02}:{:02}:{:02}.{:03}" of config.rs timestamp()
ClockText(now) ==
    LET hours == (now.secs % 86400) \div 3600
        minutes == (now.secs % 3600) \div 60
        seconds == now.secs % 60
    IN  ZeroPad(Dec(hours), 2) \o <<58>> \o ZeroPad(Dec(minutes), 2) \o <<58>>
          \o ZeroPad(Dec(seconds), 2) \o <<46>> \o ZeroPad(Dec(now.millis), 3)

\* lib.rs format_timestamp(): the same text followed by a space
format_timestamp(now) == ClockText(now) \o <<SP>>

\* config.rs write_log: format!("{time} {color}{level}\x1b[0m {message}\n")
FormatLine(time, clr, lvl, message) ==
    time \o <<SP>> \o clr \o lvl \o Reset \o <<SP>> \o message \o <<LF>>

\* ----------------------------------------------------------------- state

Threads == {"t1", "t2"}

\* no thread (as the holder of a lock)
None == "None"

\* Option<T>: the empty sequence is None, a one-element sequence is Some(x)
Nothing == <<>>
Some(x) == <<x>>

\* The writers a caller can hand to set_output: the stdout writer, a clone
\* of a memory writer, a clone-like handle of the tests' TestWriter, and a
\* file writer.  Each of the last three owns or shares one byte store.
Sinks == {"stdout", "mem1", "test1", "file1"}

\* The byte stores: the buffer of the memory writer whose clone is handed to
\* set_output, the buffer of a second MemoryWriter::new(), the buffer of the
\* TestWriter and the file.
Stores == {"mem1", "mem2", "test1", "file1"}


VARIABLES
    MAX_LEVEL,      \* lib.rs: static MAX_LEVEL: AtomicUsize
    WRITER,         \* config.rs: the writer held by the WRITER mutex
    WRITER_lock,    \* the thread holding the WRITER mutex, or None
    TIMESTAMP,      \* config.rs: the Option<String> held by the TIMESTAMP mutex
    TIMESTAMP_lock, \* the thread holding the TIMESTAMP mutex, or None
    store,          \* the bytes each memory buffer, test buffer or file holds
    stdout,         \* the bytes written to the process's standard stream
    stderr,         \* the bytes written to the process's error stream
    file_moved,     \* the FileWriter value has been moved into set_output
    pc,             \* where each thread is in its current call
    frame,          \* the arguments and locals of each thread's current call
    ncalls,         \* history: the number of log calls started
    last_level,     \* history: the level last given to set_max_level
    last_output,    \* history: the writer last given to set_output, "stdout"
                    \*   after clear_output and at the start
    acquired,       \* history: per store, the calls that took the WRITER lock
                    \*   while it was active, in the order they took it
    frozen          \* history: per store, its bytes when it was last replaced
                    \*   as the active sink (Nothing while active or never installed)

globals == <<MAX_LEVEL, WRITER, WRITER_lock, TIMESTAMP, TIMESTAMP_lock>>
outputs == <<store, stdout, stderr>>
history == <<ncalls, last_level, last_output, acquired, frozen>>
vars == <<MAX_LEVEL, WRITER, WRITER_lock, TIMESTAMP, TIMESTAMP_lock, store,
          stdout, stderr, file_moved, pc, frame, ncalls, last_level,
          last_output, acquired, frozen>>

NoFrame ==
    [op |-> "none", level |-> <<>>, color |-> <<>>, message |-> <<>>,
     rlevel |-> None, file |-> Nothing, line |-> Nothing,
     time |-> <<>>, text |-> <<>>, res |-> "none",
     handle |-> None, ret |-> Nothing, now |-> Nothing]

Init ==
    /\ MAX_LEVEL = LevelUsize("Info")
    /\ WRITER = "stdout"
    /\ WRITER_lock = None
    /\ TIMESTAMP = Nothing
    /\ TIMESTAMP_lock = None
    /\ store = [b \in Stores |-> <<>>]
    /\ stdout = <<>>
    /\ stderr = <<>>
    /\ file_moved = FALSE
    /\ pc = [t \in Threads |-> "idle"]
    /\ frame = [t \in Threads |-> NoFrame]
    /\ ncalls = 0
    /\ last_level = "Info"
    /\ last_output = "stdout"
    /\ acquired = [b \in Stores |-> <<>>]
    /\ frozen = [b \in Stores |-> Nothing]

\* ------------------------------------------------------------- config.rs

\* history kept by set_output and clear_output: the store that stops being
\* the active sink is remembered as it is, and the store that becomes active
\* is no longer a prior sink
Replaced(w) ==
    /\ frozen' = [b \in Stores |->
                     IF b = w THEN Nothing
                     ELSE IF b = WRITER THEN Some(store[b])
                     ELSE frozen[b]]
    /\ last_output' = w

\* pub fn set_output(writer): lock WRITER, replace the boxed writer (the
\* prior one is dropped), unlock.  A FileWriter is not Clone: the one value
\* can be moved into set_output once.
set_output(t, w) ==
    /\ pc[t] = "idle"
    /\ WRITER_lock = None
    /\ w = "file1" => ~file_moved
    /\ WRITER' = w
    /\ file_moved' = (file_moved \/ w = "file1")
    /\ Replaced(w)
    /\ UNCHANGED <<MAX_LEVEL, WRITER_lock, TIMESTAMP, TIMESTAMP_lock, outputs,
                   pc, frame, ncalls, last_level, acquired>>

\* a clear_output that builds the StdoutWriter and does not store it
clear_output_keep(t) ==
    /\ pc[t] = "idle"
    /\ WRITER_lock = None
    /\ WRITER' = WRITER
    /\ Replaced("stdout")
    /\ UNCHANGED <<MAX_LEVEL, WRITER_lock, TIMESTAMP, TIMESTAMP_lock, outputs,
                   file_moved, pc, frame, ncalls, last_level, acquired>>

\* pub fn clear_output(): lock WRITER, install a new StdoutWriter, unlock
clear_output(t) ==
    /\ pc[t] = "idle"
    /\ WRITER_lock = None
    /\ WRITER' = "stdout"
    /\ Replaced("stdout")
    /\ UNCHANGED <<MAX_LEVEL, WRITER_lock, TIMESTAMP, TIMESTAMP_lock, outputs,
                   file_moved, pc, frame, ncalls, last_level, acquired>>

\* pub fn set_timestamp(ts): lock TIMESTAMP, store Some(ts), unlock
set_timestamp(t, ts) ==
    /\ pc[t] = "idle"
    /\ TIMESTAMP_lock = None
    /\ TIMESTAMP' = Some(ts)
    /\ UNCHANGED <<MAX_LEVEL, WRITER, WRITER_lock, TIMESTAMP_lock, outputs,
                   file_moved, pc, frame, history>>

\* pub fn clear_timestamp(): lock TIMESTAMP, store None, unlock
clear_timestamp(t) ==
    /\ pc[t] = "idle"
    /\ TIMESTAMP_lock = None
    /\ TIMESTAMP' = Nothing
    /\ UNCHANGED <<MAX_LEVEL, WRITER, WRITER_lock, TIMESTAMP_lock, outputs,
                   file_moved, pc, frame, history>>

\* a call of write_log(level, color, message) enters the function
write_log(t, op, lvl, clr, message) ==
    /\ pc[t] = "idle"
    /\ ncalls < MaxCalls
    /\ pc' = [pc EXCEPT ![t] = "timestamp_lock"]
    /\ frame' = [frame EXCEPT ![t] =
                    [NoFrame EXCEPT !.op = op, !.level = lvl, !.color = clr,
                                    !.message = message]]
    /\ ncalls' = ncalls + 1
    /\ UNCHANGED <<globals, outputs, file_moved, last_level, last_output,
                   acquired, frozen>>

\* timestamp(): TIMESTAMP.lock()
timestamp_lock(t) ==
    /\ pc[t] = "timestamp_lock"
    /\ TIMESTAMP_lock = None
    /\ TIMESTAMP_lock' = t
    /\ pc' = [pc EXCEPT ![t] = "timestamp_read"]
    /\ UNCHANGED <<MAX_LEVEL, WRITER, WRITER_lock, TIMESTAMP, outputs,
                   file_moved, frame, history>>

\* a timestamp() that never looks at the override
timestamp_read_clock(t) ==
    /\ pc[t] = "timestamp_read"
    /\ TIMESTAMP_lock = t
    /\ \E now \in Clock :
          frame' = [frame EXCEPT
              ![t].time = ClockText(now),
              ![t].text = FormatLine(ClockText(now), frame[t].color,
                                     frame[t].level, frame[t].message)]
    /\ TIMESTAMP_lock' = None
    /\ pc' = [pc EXCEPT ![t] = "writer_lock"]
    /\ UNCHANGED <<MAX_LEVEL, WRITER, WRITER_lock, TIMESTAMP, outputs,
                   file_moved, history>>

\* a timestamp() whose guard outlives the call: the timestamp lock is still
\* held when write_log goes on to the sink lock
timestamp_read_hold(t) ==
    /\ pc[t] = "timestamp_read"
    /\ TIMESTAMP_lock = t
    /\ \E now \in Clock :
          LET time == IF TIMESTAMP # Nothing THEN TIMESTAMP[1] ELSE ClockText(now)
          IN  frame' = [frame EXCEPT
                  ![t].time = time,
                  ![t].text = FormatLine(time, frame[t].color, frame[t].level,
                                         frame[t].message)]
    /\ pc' = [pc EXCEPT ![t] = "writer_lock"]
    /\ UNCHANGED <<globals, outputs, file_moved, history>>

\* timestamp(): the override is cloned under the lock, or the lock is dropped
\* and the wall clock is read and formatted; then write_log formats its line
timestamp_read(t) ==
    /\ pc[t] = "timestamp_read"
    /\ TIMESTAMP_lock = t
    /\ \E now \in Clock :
          LET time == IF TIMESTAMP # Nothing THEN TIMESTAMP[1] ELSE ClockText(now)
          IN  frame' = [frame EXCEPT
                  ![t].time = time,
                  ![t].text = FormatLine(time, frame[t].color, frame[t].level,
                                         frame[t].message)]
    /\ TIMESTAMP_lock' = None
    /\ pc' = [pc EXCEPT ![t] = "writer_lock"]
    /\ UNCHANGED <<MAX_LEVEL, WRITER, WRITER_lock, TIMESTAMP, outputs,
                   file_moved, history>>

\* a lock that is taken without waiting for its holder to release it
writer_lock_nowait(t) ==
    /\ pc[t] = "writer_lock"
    /\ WRITER_lock' = t
    /\ pc' = [pc EXCEPT ![t] = "write_all"]
    /\ acquired' = IF WRITER \in Stores
                    THEN [acquired EXCEPT ![WRITER] =
                            Append(@, [by |-> t, op |-> frame[t].op,
                                       message |-> frame[t].message,
                                       text |-> frame[t].text,
                                       st |-> "pending"])]
                    ELSE acquired
    /\ UNCHANGED <<MAX_LEVEL, WRITER, TIMESTAMP, TIMESTAMP_lock, outputs,
                   file_moved, frame, ncalls, last_level, last_output, frozen>>

\* write_log: let mut writer = WRITER.lock().unwrap()
writer_lock(t) ==
    /\ pc[t] = "writer_lock"
    /\ WRITER_lock = None
    /\ WRITER_lock' = t
    /\ pc' = [pc EXCEPT ![t] = "write_all"]
    /\ acquired' = IF WRITER \in Stores
                    THEN [acquired EXCEPT ![WRITER] =
                            Append(@, [by |-> t, op |-> frame[t].op,
                                       message |-> frame[t].message,
                                       text |-> frame[t].text,
                                       st |-> "pending"])]
                    ELSE acquired
    /\ UNCHANGED <<MAX_LEVEL, WRITER, TIMESTAMP, TIMESTAMP_lock, outputs,
                   file_moved, frame, ncalls, last_level, last_output, frozen>>

\* an extension that puts the new bytes in front
Extend_front(old, bytes) == bytes \o old

\* Vec::extend_from_slice and File::write_all: the bytes go behind what the
\* store holds
Extend(old, bytes) == old \o bytes

\* what a successful write of buf appends to the store of writer w:
\* MemoryWriter::write and FileWriter::write append strip_ansi(buf), the
\* tests' TestWriter appends buf
Appended(w, buf) == IF w = "test1" THEN buf ELSE strip_ansi(buf)

\* the history entry of thread t's pending write gets the write's result
Settled(w, t, res) ==
    IF w \in Stores
    THEN [acquired EXCEPT ![w] =
            [i \in 1..Len(@) |->
                IF @[i].by = t /\ @[i].st = "pending"
                THEN [@[i] EXCEPT !.st = res, !.by = None] ELSE @[i]]]
    ELSE acquired

\* a write that also echoes the line to the standard stream
write_all_tee(t) ==
    /\ pc[t] = "write_all"
    /\ WRITER_lock = t
    /\ \E ok \in (IF WRITER = "file1" THEN BOOLEAN ELSE {TRUE}) :
          LET res == IF ok THEN "ok" ELSE "err"
          IN  /\ stdout' = stdout \o frame[t].text
              /\ store' = IF ok /\ WRITER \in Stores
                           THEN [store EXCEPT ![WRITER] =
                                    @ \o Appended(WRITER, frame[t].text)]
                           ELSE store
              /\ frame' = [frame EXCEPT ![t].res = res]
              /\ acquired' = [b \in Stores |->
                                [i \in 1..Len(acquired[b]) |->
                                    IF acquired[b][i].by = t
                                    THEN [acquired[b][i] EXCEPT !.st = res, !.by = None]
                                    ELSE acquired[b][i]]]
    /\ pc' = [pc EXCEPT ![t] = "flush"]
    /\ UNCHANGED <<globals, stderr, file_moved, ncalls, last_level, last_output,
                   frozen>>

\* write_log: let _ = writer.write_all(line.as_bytes()).  Every writer here
\* consumes the whole buffer in one write or returns an error: the write to
\* the file can fail, the two in-memory writers cannot, and the process's
\* standard stream is taken to accept what it is given.
write_all(t) ==
    /\ pc[t] = "write_all"
    /\ WRITER_lock = t
    /\ \E ok \in (IF WRITER = "file1" THEN BOOLEAN ELSE {TRUE}) :
          LET res == IF ok THEN "ok" ELSE "err"
          IN  /\ stdout' = IF ok /\ WRITER = "stdout"
                            THEN stdout \o frame[t].text ELSE stdout
              /\ store' = IF ok /\ WRITER \in Stores
                           THEN [store EXCEPT ![WRITER] =
                                    Extend(@, Appended(WRITER, frame[t].text))]
                           ELSE store
              /\ frame' = [frame EXCEPT ![t].res = res]
              /\ acquired' = Settled(WRITER, t, res)
    /\ pc' = [pc EXCEPT ![t] = "flush"]
    /\ UNCHANGED <<globals, stderr, file_moved, ncalls, last_level, last_output,
                   frozen>>

\* a return that leaves the sink lock held
flush_keep_lock(t) ==
    /\ pc[t] = "flush"
    /\ WRITER_lock = t
    /\ pc' = [pc EXCEPT ![t] = "idle"]
    /\ frame' = [frame EXCEPT ![t] = NoFrame]
    /\ UNCHANGED <<globals, outputs, file_moved, history>>

\* write_log: let _ = writer.flush(); the guard is dropped on return.  No
\* flush of these writers changes what the sink holds, and its result is
\* discarded.
flush(t) ==
    /\ pc[t] = "flush"
    /\ WRITER_lock = t
    /\ WRITER_lock' = None
    /\ pc' = [pc EXCEPT ![t] = "idle"]
    /\ frame' = [frame EXCEPT ![t] = NoFrame]
    /\ UNCHANGED <<MAX_LEVEL, WRITER, TIMESTAMP, TIMESTAMP_lock, outputs,
                   file_moved, history>>

\* ------------------------- config.rs: the setters with their wait for the lock

\* a call of one of the four setters has started: its next step is lock()
setter_call(t, op, w, ts) ==
    /\ pc[t] = "idle"
    /\ pc' = [pc EXCEPT ![t] = op]
    /\ frame' = [frame EXCEPT ![t] =
                    [NoFrame EXCEPT !.op = op, !.handle = w, !.time = ts]]
    /\ UNCHANGED <<globals, outputs, file_moved, history>>

set_output_call(t, w) == setter_call(t, "set_output", w, <<>>)
clear_output_call(t) == setter_call(t, "clear_output", "stdout", <<>>)
set_timestamp_call(t, ts) == setter_call(t, "set_timestamp", None, ts)
clear_timestamp_call(t) == setter_call(t, "clear_timestamp", None, <<>>)

\* set_output and clear_output: WRITER.lock() returns once no thread holds
\* the lock; the box is replaced and the guard dropped on return
writer_replace(t) ==
    /\ pc[t] \in {"set_output", "clear_output"}
    /\ WRITER_lock = None
    /\ WRITER' = frame[t].handle
    /\ Replaced(frame[t].handle)
    /\ pc' = [pc EXCEPT ![t] = "idle"]
    /\ frame' = [frame EXCEPT ![t] = NoFrame]
    /\ UNCHANGED <<MAX_LEVEL, WRITER_lock, TIMESTAMP, TIMESTAMP_lock, outputs,
                   file_moved, ncalls, last_level, acquired>>

\* set_timestamp and clear_timestamp: TIMESTAMP.lock() returns once no
\* thread holds the lock; the override is stored and the guard dropped
timestamp_replace(t) ==
    /\ pc[t] \in {"set_timestamp", "clear_timestamp"}
    /\ TIMESTAMP_lock = None
    /\ TIMESTAMP' = IF pc[t] = "set_timestamp" THEN Some(frame[t].time) ELSE Nothing
    /\ pc' = [pc EXCEPT ![t] = "idle"]
    /\ frame' = [frame EXCEPT ![t] = NoFrame]
    /\ UNCHANGED <<MAX_LEVEL, WRITER, WRITER_lock, TIMESTAMP_lock, outputs,
                   file_moved, history>>

\* ------------------------------------------------------------ loggers.rs

\* Log a debug message (cyan)
debug(t, message) == write_log(t, "debug", <<68, 69, 66, 85, 71>>,
                               <<27, 91, 51, 54, 109>>, message)

\* an info that passes the level name without its padding
info_unpadded(t, message) == write_log(t, "info", <<73, 78, 70, 79>>,
                                       <<27, 91, 51, 50, 109>>, message)

\* Log an info message (green)
info(t, message) == write_log(t, "info", <<73, 78, 70, 79, 32>>,
                              <<27, 91, 51, 50, 109>>, message)

\* Log a warning message (yellow)
warn(t, message) == write_log(t, "warn", <<87, 65, 82, 78, 32>>,
                              <<27, 91, 51, 51, 109>>, message)

\* Log an error message (red)
error(t, message) == write_log(t, "error", <<69, 82, 82, 79, 82>>,
                               <<27, 91, 51, 49, 109>>, message)

\* ------------------------------------------------------ writers/memory.rs

\* The handles a caller holds: h1 is MemoryWriter::new(), h2 is h1.clone(),
\* h3 is a second MemoryWriter::new(), and f1 is the FileWriter before it is
\* given to set_output.  The writer "mem1" of Sinks is h1.writer().
MemoryHandles == {"h1", "h2", "h3"}
Handles == MemoryHandles \cup {"f1"}

\* a clone that does not share the buffer of the handle it was cloned from
buffer_own(h) ==
    CASE h = "h1" -> "mem1"
      [] h \in {"h2", "h3"} -> "mem2"
      [] h = "f1" -> "file1"

\* the store a handle appends to: #[derive(Clone)] clones the Arc, so a
\* clone shares the buffer; each new() has a buffer of its own
buffer(h) ==
    CASE h \in {"h1", "h2"} -> "mem1"
      [] h = "h3" -> "mem2"
      [] h = "f1" -> "file1"

\* entries with the entry of a finished write put behind the finished ones,
\* in front of the write that holds the sink lock and has not written yet
Finished(entries, e) ==
    SelectSeq(entries, LAMBDA x : x.st # "pending") \o <<e>>
      \o SelectSeq(entries, LAMBDA x : x.st = "pending")

\* a write that reports the number of bytes it appended
Consumed_clean(buf, clean) == Len(clean)

\* Ok(buf.len()): the length of the buffer as it was given
Consumed(buf, clean) == Len(buf)

\* Write::write(buf) through handle h, by the caller itself: strip_ansi,
\* append under the buffer's lock (to the file: write_all, which can fail),
\* and Ok(buf.len()); the result is with the caller
write(t, h, buf) ==
    /\ pc[t] = "idle"
    /\ ncalls < MaxCalls
    /\ h = "f1" => ~file_moved
    /\ \E ok \in (IF h = "f1" THEN BOOLEAN ELSE {TRUE}) :
          LET clean == strip_ansi(buf)
              res == IF ok THEN "ok" ELSE "err"
          IN  /\ store' = IF ok THEN [store EXCEPT ![buffer(h)] = Extend(@, clean)]
                           ELSE store
              /\ acquired' = [acquired EXCEPT ![buffer(h)] =
                                 Finished(@, [by |-> None, op |-> "write",
                                              message |-> buf, text |-> buf,
                                              st |-> res])]
              /\ frame' = [frame EXCEPT ![t] =
                             [NoFrame EXCEPT !.op = "write", !.handle = h,
                                             !.message = buf, !.res = res,
                                             !.ret = IF ok THEN Some(Consumed(buf, clean))
                                                     ELSE Nothing]]
    /\ pc' = [pc EXCEPT ![t] = "written"]
    /\ frozen' = [frozen EXCEPT ![buffer(h)] =
                      IF @ = Nothing THEN Nothing ELSE Some(store'[buffer(h)])]
    /\ ncalls' = ncalls + 1
    /\ UNCHANGED <<globals, stdout, stderr, file_moved, last_level, last_output>>

\* the caller drops the io::Result of write
written(t) ==
    /\ pc[t] = "written"
    /\ pc' = [pc EXCEPT ![t] = "idle"]
    /\ frame' = [frame EXCEPT ![t] = NoFrame]
    /\ UNCHANGED <<globals, outputs, file_moved, history>>

\* MemoryWriter::clear through handle h: the buffer h shares is emptied,
\* whether or not a clone is the active sink
clear(t, h) ==
    /\ pc[t] = "idle"
    /\ store[buffer(h)] # <<>>
    /\ store' = [store EXCEPT ![buffer(h)] = <<>>]
    /\ acquired' = [acquired EXCEPT ![buffer(h)] =
                        SelectSeq(@, LAMBDA e : e.st = "pending")]
    /\ frozen' = [frozen EXCEPT ![buffer(h)] =
                      IF @ = Nothing THEN Nothing ELSE Some(<<>>)]
    /\ UNCHANGED <<globals, stdout, stderr, file_moved, pc, frame, ncalls,
                   last_level, last_output>>

\* MemoryWriter::contents: the bytes of the shared buffer (all bytes of the
\* model are ASCII, which the lossy UTF-8 decoding leaves as they are)
contents(b) == store[b]

\* -------------------------------------------------- lib.rs: the facade

\* pub fn set_max_level(level): MAX_LEVEL.store(level as usize, SeqCst)
set_max_level(t, l) ==
    /\ pc[t] = "idle"
    /\ MAX_LEVEL' = LevelUsize(l)
    /\ last_level' = l
    /\ UNCHANGED <<WRITER, WRITER_lock, TIMESTAMP, TIMESTAMP_lock, outputs,
                   file_moved, pc, frame, ncalls, last_output, acquired, frozen>>

\* pub fn init(): set_max_level(Level::Info)
init(t) == set_max_level(t, "Info")

\* pub fn init_with_level(level): set_max_level(level)
init_with_level(t, l) == set_max_level(t, l)

\* a max_level whose fallback arm gives the default level
max_level_default ==
    CASE MAX_LEVEL = 0 -> "Trace"
      [] MAX_LEVEL = 1 -> "Debug"
      [] MAX_LEVEL = 2 -> "Info"
      [] MAX_LEVEL = 3 -> "Warn"
      [] MAX_LEVEL = 4 -> "Error"
      [] OTHER -> "Info"

\* pub fn max_level(): the Level of the stored word
max_level ==
    CASE MAX_LEVEL = 0 -> "Trace"
      [] MAX_LEVEL = 1 -> "Debug"
      [] MAX_LEVEL = 2 -> "Info"
      [] MAX_LEVEL = 3 -> "Warn"
      [] MAX_LEVEL = 4 -> "Error"
      [] OTHER -> "Off"

\* log_enabled with a strict comparison
log_enabled_strict(l) == LevelUsize(l) > MAX_LEVEL

\* pub fn log_enabled(level): level as usize >= MAX_LEVEL.load(Relaxed)
log_enabled(l) == LevelUsize(l) >= MAX_LEVEL

\* the files and lines a Record may carry; file!() and line!() of a macro
\* call are "a.rs" and 8
File_a == <<97, 46, 114, 115>>
Files == {Nothing, Some(File_a)}
Lines == {Nothing, Some(8)}

\* a call of one of the macros trace!, debug!, info!, warn!, error!
macro_call(t, op, l, message) ==
    /\ pc[t] = "idle"
    /\ ncalls < MaxCalls
    /\ pc' = [pc EXCEPT ![t] = "macro_check"]
    /\ frame' = [frame EXCEPT ![t] =
                    [NoFrame EXCEPT !.op = op, !.rlevel = l, !.message = message]]
    /\ ncalls' = ncalls + 1
    /\ UNCHANGED <<globals, outputs, file_moved, last_level, last_output,
                   acquired, frozen>>

trace_macro(t, message) == macro_call(t, "trace!", "Trace", message)
debug_macro(t, message) == macro_call(t, "debug!", "Debug", message)
info_macro(t, message) == macro_call(t, "info!", "Info", message)
warn_macro(t, message) == macro_call(t, "warn!", "Warn", message)
error_macro(t, message) == macro_call(t, "error!", "Error", message)

\* a macro body without its own check: the Record is built and log() called
\* whatever the threshold
macro_check_always(t) ==
    /\ pc[t] = "macro_check"
    /\ pc' = [pc EXCEPT ![t] = "log_check"]
    /\ frame' = [frame EXCEPT ![t].file = Some(File_a), ![t].line = Some(8)]
    /\ UNCHANGED <<globals, outputs, file_moved, history>>

\* the macro body: if log_enabled(level) { build the Record with file!() and
\* line!() and call log(&record) }
macro_check(t) ==
    /\ pc[t] = "macro_check"
    /\ IF log_enabled(frame[t].rlevel)
       THEN /\ pc' = [pc EXCEPT ![t] = "log_check"]
            /\ frame' = [frame EXCEPT ![t].file = Some(File_a), ![t].line = Some(8)]
       ELSE /\ pc' = [pc EXCEPT ![t] = "idle"]
            /\ frame' = [frame EXCEPT ![t] = NoFrame]
    /\ UNCHANGED <<globals, outputs, file_moved, history>>

\* a direct call of pub fn log(record) with a Record built by the caller
log(t, l, message, file, line) ==
    /\ pc[t] = "idle"
    /\ ncalls < MaxCalls
    /\ pc' = [pc EXCEPT ![t] = "log_check"]
    /\ frame' = [frame EXCEPT ![t] =
                    [NoFrame EXCEPT !.op = "log", !.rlevel = l, !.message = message,
                                    !.file = file, !.line = line]]
    /\ ncalls' = ncalls + 1
    /\ UNCHANGED <<globals, outputs, file_moved, last_level, last_output,
                   acquired, frozen>>

\* a location that is printed as soon as the file is known, with line 0 when
\* the line is missing
Location_file_only(file, line) ==
    IF file # Nothing
    THEN <<SP>> \o file[1] \o <<58>> \o Dec(IF line # Nothing THEN line[1] ELSE 0)
    ELSE <<>>

\* match (record.file, record.line)
Location(file, line) ==
    IF file # Nothing /\ line # Nothing
    THEN <<SP>> \o file[1] \o <<58>> \o Dec(line[1])
    ELSE <<>>

\* format!("{}{}{:<5}{} {}{}\n", timestamp, color, as_str, reset, message, location)
FormatRecord(now, l, message, file, line) ==
    format_timestamp(now) \o color(l) \o PadRight(as_str(l), 5) \o Reset
      \o <<SP>> \o message \o Location(file, line) \o <<LF>>

\* log(): return when the level is not enabled, else read the clock and
\* format the line
log_check(t) ==
    /\ pc[t] = "log_check"
    /\ IF log_enabled(frame[t].rlevel)
       THEN /\ pc' = [pc EXCEPT ![t] = "log_write"]
            /\ \E now \in Clock :
                 frame' = [frame EXCEPT ![t].text =
                              FormatRecord(now, frame[t].rlevel, frame[t].message,
                                           frame[t].file, frame[t].line)]
       ELSE /\ pc' = [pc EXCEPT ![t] = "idle"]
            /\ frame' = [frame EXCEPT ![t] = NoFrame]
    /\ UNCHANGED <<globals, outputs, file_moved, history>>

\* "Failed to write log: " and the error's text (here "E"), as eprintln! prints it
FailedText ==
    <<70, 97, 105, 108, 101, 100, 32, 116, 111, 32, 119, 114, 105, 116, 101, 32,
      108, 111, 103, 58, 32, 69, 10>>

\* a log() that sends only Error and above to the error stream
log_write_from_error(t) ==
    /\ pc[t] = "log_write"
    /\ \E ok \in BOOLEAN, report_ok \in BOOLEAN :
          LET to_stderr == LevelLeq("Error", frame[t].rlevel)
          IN  /\ stderr' = IF ok /\ to_stderr THEN stderr \o frame[t].text
                           ELSE IF ~ok /\ report_ok THEN stderr \o FailedText
                           ELSE stderr
              /\ stdout' = IF ok /\ ~to_stderr THEN stdout \o frame[t].text
                           ELSE stdout
              /\ pc' = [pc EXCEPT ![t] = IF ok \/ report_ok THEN "idle"
                                          ELSE "panicked"]
    /\ frame' = [frame EXCEPT ![t] = NoFrame]
    /\ UNCHANGED <<globals, store, file_moved, history>>

\* log(): write_all to the error stream when record.level >= Level::Warn,
\* else to the standard stream; an Err is reported with eprintln!, which
\* panics when the error stream does not take the report either
log_write(t) ==
    /\ pc[t] = "log_write"
    /\ \E ok \in BOOLEAN, report_ok \in BOOLEAN :
          LET to_stderr == LevelLeq("Warn", frame[t].rlevel)
          IN  /\ stderr' = IF ok /\ to_stderr THEN stderr \o frame[t].text
                           ELSE IF ~ok /\ report_ok THEN stderr \o FailedText
                           ELSE stderr
              /\ stdout' = IF ok /\ ~to_stderr THEN stdout \o frame[t].text
                           ELSE stdout
              /\ pc' = [pc EXCEPT ![t] = IF ok \/ report_ok THEN "idle"
                                          ELSE "panicked"]
    /\ frame' = [frame EXCEPT ![t] = NoFrame]
    /\ UNCHANGED <<globals, store, file_moved, history>>

\* ------------------------------------------- lib.rs: impl FromStr for Level

\* char::to_uppercase of the characters the inputs are made of (characters
\* are code points): an ASCII lower-case letter gives its upper-case letter,
\* the dotless i U+0131 gives "I", the ligature U+FB00 gives "FF", the sharp
\* s U+00DF gives "SS"; every other character here, the dotted capital
\* U+0130 included, gives itself
to_uppercase_char(c) ==
    CASE c \in 97..122 -> <<c - 32>>
      [] c = 305 -> <<73>>
      [] c = 64256 -> <<70, 70>>
      [] c = 223 -> <<83, 83>>
      [] OTHER -> <<c>>

\* str::to_uppercase
to_uppercase(s) == Flatten([i \in 1..Len(s) |-> to_uppercase_char(s[i])])

Name_TRACE == <<84, 82, 65, 67, 69>>
Name_DEBUG == <<68, 69, 66, 85, 71>>
Name_INFO == <<73, 78, 70, 79>>
Name_WARN == <<87, 65, 82, 78>>
Name_WARNING == <<87, 65, 82, 78, 73, 78, 71>>
Name_ERROR == <<69, 82, 82, 79, 82>>
Name_OFF == <<79, 70, 70>>

\* a from_str that matches the text as it is given
from_str_exact(s) ==
    CASE s = Name_TRACE -> Some("Trace")
      [] s = Name_DEBUG -> Some("Debug")
      [] s = Name_INFO -> Some("Info")
      [] s \in {Name_WARN, Name_WARNING} -> Some("Warn")
      [] s = Name_ERROR -> Some("Error")
      [] s = Name_OFF -> Some("Off")
      [] OTHER -> Nothing

\* fn from_str(s): match s.to_uppercase().as_str(); Ok(level) is Some(level)
\* and Err(()) is Nothing
from_str(s) ==
    LET u == to_uppercase(s)
    IN  CASE u = Name_TRACE -> Some("Trace")
          [] u = Name_DEBUG -> Some("Debug")
          [] u = Name_INFO -> Some("Info")
          [] u \in {Name_WARN, Name_WARNING} -> Some("Warn")
          [] u = Name_ERROR -> Some("Error")
          [] u = Name_OFF -> Some("Off")
          [] OTHER -> Nothing

\* a call s.parse::<Level>() by thread t: from_str runs and its result is
\* with the caller
parse(t, s) ==
    /\ pc[t] = "idle"
    /\ pc' = [pc EXCEPT ![t] = "parsed"]
    /\ frame' = [frame EXCEPT ![t] =
                    [NoFrame EXCEPT !.op = "parse", !.message = s,
                                    !.rlevel = IF from_str(s) = Nothing THEN None
                                               ELSE from_str(s)[1],
                                    !.res = IF from_str(s) = Nothing THEN "Err"
                                            ELSE "Ok"]]
    /\ UNCHANGED <<globals, outputs, file_moved, history>>

\* the caller drops the result of parse
parsed(t) ==
    /\ pc[t] = "parsed"
    /\ pc' = [pc EXCEPT ![t] = "idle"]
    /\ frame' = [frame EXCEPT ![t] = NoFrame]
    /\ UNCHANGED <<globals, outputs, file_moved, history>>

\* ------------------------------------------------------- specifications

OutputStep(t, sinks, msgs, stamps) ==
    \/ \E w \in sinks : set_output(t, w)
    \/ clear_output(t)
    \/ \E ts \in stamps : set_timestamp(t, ts)
    \/ clear_timestamp(t)
    \/ \E m \in msgs : debug(t, m)
    \/ \E m \in msgs : info(t, m)
    \/ \E m \in msgs : warn(t, m)
    \/ \E m \in msgs : error(t, m)
    \/ timestamp_lock(t)
    \/ timestamp_read(t)
    \/ writer_lock(t)
    \/ write_all(t)
    \/ flush(t)
    \/ clear(t, "h1")

\* the output state used from several threads
Next == \E t \in Threads : OutputStep(t, {"mem1", "test1"}, {Str_z}, {T0})

Spec == Init /\ [][Next]_vars

\* the output state used from one thread, one call after another
SeqNext == OutputStep("t1", {"mem1", "file1"}, {Str_z, Str_bold_x}, {T0})

SeqSpec == Init /\ [][SeqNext]_vars

FacadeStep(t, msgs) ==
    \/ \E l \in Levels : set_max_level(t, l)
    \/ init(t)
    \/ \E l \in Levels : init_with_level(t, l)
    \/ \E m \in msgs : trace_macro(t, m)
    \/ \E m \in msgs : debug_macro(t, m)
    \/ \E m \in msgs : info_macro(t, m)
    \/ \E m \in msgs : warn_macro(t, m)
    \/ \E m \in msgs : error_macro(t, m)
    \/ macro_check(t)
    \/ \E l \in Levels, m \in msgs, f \in Files, n \in Lines : log(t, l, m, f, n)
    \/ log_check(t)
    \/ log_write(t)

LoggerStep(t, msgs) ==
    \/ \E m \in msgs : debug(t, m)
    \/ \E m \in msgs : info(t, m)
    \/ \E m \in msgs : warn(t, m)
    \/ \E m \in msgs : error(t, m)
    \/ timestamp_lock(t)
    \/ timestamp_read(t)
    \/ writer_lock(t)
    \/ write_all(t)
    \/ flush(t)

\* the level filter and every logging entry point, used from several threads
\* with the default sink and no timestamp override
FacadeNext == \E t \in Threads : FacadeStep(t, {Str_z}) \/ LoggerStep(t, {Str_z})

FacadeSpec == Init /\ [][FacadeNext]_vars

\* the spellings of a name: each letter in upper or lower case, and for the
\* letter I also the dotless i U+0131 and the dotted capital U+0130
LetterForms(c) == {c, c + 32} \cup (IF c = 73 THEN {305, 304} ELSE {})

RECURSIVE Spellings(_)
Spellings(name) ==
    IF name = <<>> THEN {<<>>}
    ELSE {<<c>> \o r : c \in LetterForms(Head(name)), r \in Spellings(Tail(name))}

LevelNameTexts ==
    {Name_TRACE, Name_DEBUG, Name_INFO, Name_WARN, Name_WARNING, Name_ERROR,
     Name_OFF}

\* the texts given to parse: every spelling of every name, the names cut
\* short, padded with a space or doubled, "o" and "O" followed by the
\* ligature U+FB00, the ligature alone, "invalid", "warnings" and the empty
\* text
ParseInputs ==
    UNION {Spellings(n) : n \in LevelNameTexts}
      \cup {Tail(n) : n \in LevelNameTexts}
      \cup {SubSeq(n, 1, Len(n) - 1) : n \in LevelNameTexts}
      \cup {n \o <<SP>> : n \in LevelNameTexts}
      \cup {<<SP>> \o n : n \in LevelNameTexts}
      \cup {n \o n : n \in LevelNameTexts}
      \cup { <<111, 64256>>, <<79, 64256>>, <<64256>>,
             <<105, 110, 118, 97, 108, 105, 100>>,
             <<119, 97, 114, 110, 105, 110, 103, 115>>, <<>> }

ParseStep(t) ==
    \/ \E s \in ParseInputs : parse(t, s)
    \/ parsed(t)
    \/ \E l \in Levels : set_max_level(t, l)

\* texts parsed one after another under every threshold
ParseNext == ParseStep("t1")

ParseSpec == Init /\ [][ParseNext]_vars

\* ------------------------------------------- utils/ansi.rs called directly

\* the bytes the inputs of strip_ansi are made of: ESC, 'm', '[' and 'x'
StripBytes == {ESC, ByteM, 91, 120}

\* every byte sequence of at most MaxBytes of these bytes
StripInputs == UNION {[1..n -> StripBytes] : n \in 0..MaxBytes}

\* a call strip_ansi(input) by thread t: the result is with the caller
strip(t, input) ==
    /\ pc[t] = "idle"
    /\ pc' = [pc EXCEPT ![t] = "stripped"]
    /\ frame' = [frame EXCEPT ![t] =
                    [NoFrame EXCEPT !.op = "strip_ansi", !.message = input,
                                    !.text = strip_ansi(input)]]
    /\ UNCHANGED <<globals, outputs, file_moved, history>>

\* the caller drops the result of strip_ansi
stripped(t) ==
    /\ pc[t] = "stripped"
    /\ pc' = [pc EXCEPT ![t] = "idle"]
    /\ frame' = [frame EXCEPT ![t] = NoFrame]
    /\ UNCHANGED <<globals, outputs, file_moved, history>>

StripStep(t) ==
    \/ \E b \in StripInputs : strip(t, b)
    \/ stripped(t)

\* byte sequences stripped one after another
StripNext == StripStep("t1")

StripSpec == Init /\ [][StripNext]_vars

HandleStep(t) ==
    \/ \E w \in {"mem1", "file1"} : set_output(t, w)
    \/ clear_output(t)
    \/ info(t, Str_z)
    \/ timestamp_lock(t)
    \/ timestamp_read(t)
    \/ writer_lock(t)
    \/ write_all(t)
    \/ flush(t)
    \/ \E h \in Handles, b \in {Str_z, Str_bold_x} : write(t, h, b)
    \/ written(t)
    \/ \E h \in MemoryHandles : clear(t, h)

\* the writers used through the handles a caller kept, while log calls use
\* the installed one, from several threads
HandleNext == \E t \in Threads : HandleStep(t)

HandleSpec == Init /\ [][HandleNext]_vars

\* the steps that start a call of the output state
CallStep(t) ==
    \/ set_output_call(t, "mem1")
    \/ clear_output_call(t)
    \/ set_timestamp_call(t, T0)
    \/ clear_timestamp_call(t)
    \/ info(t, Str_z)
    \/ error(t, Str_z)

\* the steps of a call that has started
RunStep(t) ==
    \/ writer_replace(t)
    \/ timestamp_replace(t)
    \/ timestamp_lock(t)
    \/ timestamp_read(t)
    \/ writer_lock(t)
    \/ write_all(t)
    \/ flush(t)

LiveNext == \E t \in Threads : CallStep(t) \/ RunStep(t)

\* A thread that can take a step of its call is scheduled in the end, and
\* the write and flush of the sink return; nothing obliges a thread to
\* start a call.
LiveSpec ==
    /\ Init
    /\ [][LiveNext]_vars
    /\ \A t \in Threads :
          /\ WF_vars(writer_replace(t))
          /\ WF_vars(timestamp_replace(t))
          /\ WF_vars(timestamp_lock(t))
          /\ WF_vars(timestamp_read(t))
          /\ WF_vars(writer_lock(t))
          /\ WF_vars(write_all(t))
          /\ WF_vars(flush(t))

\* ------------------------------- the timestamp functions called directly

\* the seconds of a day at which an hour, a minute or the width of a field
\* turns over: every hour, with the minutes and seconds 0, 1, 9, 10, 30, 59
SecondsOfDay ==
    {h * 3600 + m * 60 + x : h \in 0..23, m \in {0, 1, 9, 10, 30, 59},
                             x \in {0, 1, 9, 10, 30, 59}}

\* the days since the epoch: the first ones, a day of 2024 and the last day
\* whose seconds fit the model's integers
Days == 0..MaxDay \cup {19800, 24854}

\* the clock readings: those seconds of those days at the millisecond
\* values where the width turns over, and three seconds at every
\* millisecond value
ClockReadings ==
    {[secs |-> d * 86400 + x, millis |-> m] :
        d \in Days, x \in SecondsOfDay, m \in {0, 7, 9, 10, 99, 100, 999}}
      \cup {[secs |-> x, millis |-> m] :
                x \in {0, 45296, 19800 * 86400 + 86399}, m \in 0..999}

\* timestamp() of config.rs with no override, and format_timestamp() of
\* lib.rs, called by thread t when SystemTime::now() is c: the two texts are
\* with the caller
stamp(t, c) ==
    /\ pc[t] = "idle"
    /\ pc' = [pc EXCEPT ![t] = "stamped"]
    /\ frame' = [frame EXCEPT ![t] =
                    [NoFrame EXCEPT !.op = "timestamp", !.now = Some(c),
                                    !.time = ClockText(c),
                                    !.text = format_timestamp(c)]]
    /\ UNCHANGED <<globals, outputs, file_moved, history>>

\* the caller drops the texts
stamped(t) ==
    /\ pc[t] = "stamped"
    /\ pc' = [pc EXCEPT ![t] = "idle"]
    /\ frame' = [frame EXCEPT ![t] = NoFrame]
    /\ UNCHANGED <<globals, outputs, file_moved, history>>

TimeStep(t) ==
    \/ /\ pc[t] = "idle"
       /\ \E c \in ClockReadings : stamp(t, c)
    \/ stamped(t)

\* the wall clock rendered at one reading after another
TimeNext == TimeStep("t1")

TimeSpec == Init /\ [][TimeNext]_vars

\* ---------------------------------------------------------------- claims

\* the level of a call: the Record's level, or the level a function of
\* loggers.rs is named after
CallLevel(f) ==
    CASE f.op = "debug" -> "Debug"
      [] f.op = "info" -> "Info"
      [] f.op = "warn" -> "Warn"
      [] f.op = "error" -> "Error"
      [] OTHER -> f.rlevel

AllIdle == \A t \in Threads : pc[t] = "idle"

\* C1: after set_max_level(T), log_enabled(L) is true exactly when L >= T
\* in the order Trace < Debug < Info < Warn < Error < Off; in particular for
\* S1 < S2, the threshold S2 disables S1 and enables S2.
C1_Threshold ==
    /\ \A l \in Levels : log_enabled(l) <=> LevelLeq(last_level, l)
    /\ \A s1, s2 \in Levels :
          (LevelLt(s1, s2) /\ last_level = s2) => (~log_enabled(s1) /\ log_enabled(s2))

C1_Witness ==
    /\ last_level = "Error"
    /\ MAX_LEVEL = LevelUsize("Error")
    /\ ~log_enabled("Warn")
    /\ log_enabled("Error")

\* the first step of a call that is at one of the places in entries, made
\* while the call's level is below the threshold, returns and changes no
\* global and no output
FilteredAt(entries) ==
    \A t \in Threads :
        (/\ pc[t] \in entries
         /\ pc'[t] # pc[t]
         /\ ~log_enabled(CallLevel(frame[t])))
        => (/\ pc'[t] = "idle"
            /\ UNCHANGED <<globals, outputs>>)

\* C2 (as amended): every level macro of lib.rs, and log() itself, first
\* reads the threshold and, when the call's level is below it, returns with
\* no side effect: nothing is written to any sink or stream and no lock is
\* taken.
C2_MacroFiltered == [][FilteredAt({"macro_check", "log_check"})]_vars

\* a call has been made and has returned under the default threshold, and
\* nothing was written anywhere
C2_Witness ==
    /\ ncalls = 1
    /\ AllIdle
    /\ MAX_LEVEL = LevelUsize("Info")
    /\ stdout = <<>> /\ stderr = <<>>
    /\ \A b \in Stores : store[b] = <<>>

\* C2 (as stated): every level-specific entry point, the functions of
\* loggers.rs included, first reads the threshold and returns with no side
\* effect when its level is below it.
C2_Original == [][FilteredAt({"macro_check", "timestamp_lock"})]_vars

\* the calls whose write to store b succeeded, in the order they took the lock
Written(b) == SelectSeq(acquired[b], LAMBDA e : e.st = "ok")

\* C3 (as amended): after a memory sink is installed, the level calls made
\* one after another leave contents in which every message's text with its
\* own escape sequences removed (the message itself when it has no ESC
\* byte) occurs, in call order, and no ESC byte remains.
C3_StrippedInOrder ==
    LET done == Written("mem1")
    IN  /\ OccurInOrder(contents("mem1"),
                        [i \in 1..Len(done) |-> strip_ansi(done[i].message)])
        /\ ~HasEsc(contents("mem1"))

\* two calls, the first with a message that carries an escape sequence, have
\* returned and the memory sink holds both lines
C3_Witness ==
    /\ AllIdle
    /\ Len(Written("mem1")) = 2
    /\ Written("mem1")[1].message = Str_bold_x
    /\ Written("mem1")[2].message = Str_z
    /\ Contains(contents("mem1"), Str_x)

\* C3 (as stated): every message's text occurs in the contents, in call
\* order, and no ESC byte remains.
C3_Original ==
    LET done == Written("mem1")
    IN  /\ OccurInOrder(contents("mem1"), [i \in 1..Len(done) |-> done[i].message])
        /\ ~HasEsc(contents("mem1"))

\* what store b holds is the lines of the calls that took the lock while b
\* was active and whose write succeeded, each whole, in the order the lock
\* was taken; only the holder of the lock has a write outstanding
WholeLinesInLockOrder ==
    \A b \in Stores :
        /\ store[b] = Flatten([i \in 1..Len(Written(b)) |->
                                  Appended(b, Written(b)[i].text)])
        /\ \A i \in 1..Len(acquired[b]) :
              acquired[b][i].st = "pending" =>
                  /\ i = Len(acquired[b])
                  /\ acquired[b][i].by = WRITER_lock
                  /\ pc[WRITER_lock] = "write_all"

\* from the moment a call holds the lock to its return, the slot keeps its writer
SlotHeldFixed ==
    (\E t \in Threads : pc[t] \in {"write_all", "flush"}) => WRITER' = WRITER

\* C4: the bytes of two log calls never interleave inside the sink: its
\* content is the concatenation of whole lines in the order the calls took
\* the sink lock, and no set_output or clear_output takes effect between a
\* call's write and its flush.
C4_NoInterleaving == [](WholeLinesInLockOrder) /\ [][SlotHeldFixed]_vars

\* one thread has written and not yet flushed while the other waits for the
\* lock with its line formatted
C4_Witness ==
    /\ pc["t1"] = "flush"
    /\ pc["t2"] = "writer_lock"
    /\ WRITER = "mem1"
    /\ store["mem1"] # <<>>

\* C5: once set_output or clear_output has replaced the active sink, what
\* the prior sink received stays exactly what it was at the replacement,
\* whatever log calls follow or run concurrently.
C5_PriorSinkFrozen ==
    \A b \in Stores : frozen[b] # Nothing => store[b] = frozen[b][1]

\* the memory sink was replaced after it received a line, and a later call
\* has written its line to the new sink
C5_Witness ==
    /\ frozen["mem1"] # Nothing
    /\ store["mem1"] # <<>>
    /\ WRITER = "test1"
    /\ \E t \in Threads : pc[t] = "flush" /\ store["test1"] # <<>>

\* a write of write_log delivers the line to the writer in the slot and
\* changes no other store or stream
DeliveredToSlot ==
    \A t \in Threads :
        (pc[t] = "write_all" /\ pc'[t] = "flush") =>
            /\ stdout' = IF WRITER = "stdout" THEN stdout \o frame[t].text ELSE stdout
            /\ stderr' = stderr
            /\ \A b \in Stores :
                  store'[b] = IF WRITER = b /\ frame'[t].res = "ok"
                              THEN store[b] \o Appended(b, frame[t].text)
                              ELSE store[b]

\* C6: the sink slot holds exactly one writer at every moment (stdout by
\* default, the writer last given to set_output, stdout after clear_output),
\* and every line write_log emits goes to that writer and to no other.
C6_OneActiveWriter ==
    [](WRITER \in Sinks /\ WRITER = last_output) /\ [][DeliveredToSlot]_vars

\* the memory sink and the test writer have each received a line while
\* installed, the slot is back at stdout, and the standard stream, never the
\* active sink of a call, has received nothing
C6_Witness ==
    /\ WRITER = "stdout"
    /\ store["mem1"] # <<>>
    /\ store["test1"] # <<>>
    /\ stdout = <<>>

\* the timestamp field of a formatted line is time
Shows(text, time) == StartsWith(text, time \o <<SP>>)

\* what timestamp() returns when it reads the override ts
ReadOf(ts) == IF ts # Nothing THEN {ts[1]} ELSE {ClockText(now) : now \in Clock}

\* C7 (as amended): a line shows the timestamp its call read under the
\* timestamp lock: the override t when the call read after set_timestamp(t)
\* returned and before the next set or clear, the wall clock when it read
\* after clear_timestamp; a call that read before the set or clear returned
\* still writes what it read.
C7_ShowsTimestampRead ==
    /\ [][\A t \in Threads :
            (pc[t] = "timestamp_read" /\ pc'[t] = "writer_lock") =>
                frame'[t].time \in ReadOf(TIMESTAMP)]_vars
    /\ [](\A t \in Threads :
            pc[t] \in {"writer_lock", "write_all", "flush"} =>
                Shows(frame[t].text, frame[t].time))

\* a call that read the override T0 has written its line, which shows T0
C7_Witness ==
    \E t \in Threads :
        /\ pc[t] = "flush"
        /\ TIMESTAMP = Some(T0)
        /\ frame[t].time = T0
        /\ WRITER = "test1"
        /\ StartsWith(store["test1"], T0)

\* C7 (as stated): every line written to the sink after set_timestamp(t)
\* returned shows t, and every line written after clear_timestamp returned
\* shows the wall clock, also when log calls run on other threads.
C7_Original ==
    [][\A t \in Threads :
          (pc[t] = "write_all" /\ pc'[t] = "flush") =>
              \E time \in ReadOf(TIMESTAMP) : Shows(frame[t].text, time)]_vars

\* C8: when the sink's write or flush returns an error, the log call returns
\* normally and the error has been reported on the diagnostic channel (the
\* error stream) by the time it returns.
C8_ErrorReported ==
    [][\A t \in Threads :
          (pc[t] = "flush" /\ pc'[t] = "idle" /\ frame[t].res = "err") =>
              stderr' # <<>>]_vars

\* "00:00:00.000 INFO  z\n"
C9_Expected == T0 \o <<32, 73, 78, 70, 79, 32, 32, 122, 10>>

Bracketed(op) ==
    CASE op = "debug" -> <<91, 68, 69, 66, 85, 71, 93>>
      [] op = "info" -> <<91, 73, 78, 70, 79>>
      [] op = "warn" -> <<91, 87, 65, 82, 78>>
      [] op = "error" -> <<91, 69, 82, 82, 79, 82, 93>>

\* C10: after set_output(w), each of debug, info, warn and error called with
\* message m writes to w a line that contains the bracketed level name and m.
C10_BracketedLevel ==
    \A i \in 1..Len(Written("test1")) :
        /\ Contains(store["test1"], Bracketed(Written("test1")[i].op))
        /\ Contains(store["test1"], Written("test1")[i].message)


\* the streams of lib.rs hold no line that carries the display name of Off
NoOffLine ==
    /\ ~Contains(stdout, as_str("Off"))
    /\ ~Contains(stderr, as_str("Off"))

\* with the threshold at Off, a macro that reads it returns and writes to
\* no stream
MacrosSilentAtOff ==
    \A t \in Threads :
        (/\ pc[t] = "macro_check"
         /\ pc'[t] # pc[t]
         /\ max_level = "Off")
        => (pc'[t] = "idle" /\ UNCHANGED <<stdout, stderr>>)

\* C11: level Off is never emitted: after any sequence of set_max_level and
\* log calls, log() given a Record whose level is Off included, no output
\* line carries the level Off, and with the threshold at Off none of the
\* level macros produces output.
C11_OffNeverEmitted == [](NoOffLine) /\ [][MacrosSilentAtOff]_vars

\* the names from_str accepts for each level
LevelNames(l) ==
    CASE l = "Trace" -> {Name_TRACE}
      [] l = "Debug" -> {Name_DEBUG}
      [] l = "Info" -> {Name_INFO}
      [] l = "Warn" -> {Name_WARN, Name_WARNING}
      [] l = "Error" -> {Name_ERROR}
      [] l = "Off" -> {Name_OFF}

\* s is name with each letter in upper or lower case
SpellsIgnoringCase(s, name) ==
    /\ Len(s) = Len(name)
    /\ \A i \in 1..Len(name) : s[i] \in {name[i], name[i] + 32}

\* the levels of which s is a case-insensitive spelling
SpelledLevels(s) ==
    {l \in Levels : \E n \in LevelNames(l) : SpellsIgnoringCase(s, n)}

IsAscii(s) == \A i \in 1..Len(s) : s[i] < 128

\* the result a finished parse holds is Ok(l) for the levels l in ls, and
\* Err(()) when ls is empty
ParseResultIs(f, ls) ==
    /\ f.res = "Ok" <=> ls # {}
    /\ f.res = "Ok" => f.rlevel \in ls
    /\ f.res = "Err" => f.rlevel = None

\* a step of parse changes no global, no sink and no stream
ParseKeepsState ==
    \A t \in Threads :
        (pc[t] = "parsed" \/ pc'[t] = "parsed") => UNCHANGED <<globals, outputs>>

\* C12 (as amended): parsing succeeds exactly for the texts whose
\* upper-cased form (str::to_uppercase) is TRACE, DEBUG, INFO, WARN, WARNING,
\* ERROR or OFF, yielding Trace, Debug, Info, Warn, Warn, Error and Off; for
\* ASCII text these are exactly the case-insensitive spellings of the names;
\* every other text fails to parse, and a parse changes no global state.
C12_ParseLevel ==
    /\ [](\A t \in Threads :
            pc[t] = "parsed" =>
                /\ ParseResultIs(frame[t],
                                 {l \in Levels :
                                     to_uppercase(frame[t].message) \in LevelNames(l)})
                /\ IsAscii(frame[t].message) =>
                      ParseResultIs(frame[t], SpelledLevels(frame[t].message)))
    /\ [][ParseKeepsState]_vars

\* "wArNiNg" has parsed to Warn under the threshold Error
C12_Witness ==
    /\ pc["t1"] = "parsed"
    /\ frame["t1"].message = <<119, 65, 114, 78, 105, 78, 103>>
    /\ frame["t1"].res = "Ok"
    /\ frame["t1"].rlevel = "Warn"
    /\ MAX_LEVEL = LevelUsize("Error")

\* C12 (as stated): parsing succeeds exactly for the case-insensitive
\* spellings of the names, yielding their levels; every other text fails to
\* parse, and a parse changes no global state.
C12_Original ==
    /\ [](\A t \in Threads :
            pc[t] = "parsed" =>
                ParseResultIs(frame[t], SpelledLevels(frame[t].message)))
    /\ [][ParseKeepsState]_vars

\* C13: strip_ansi is idempotent and a no-op on escape-free input: for every
\* byte sequence b, strip_ansi(strip_ansi(b)) = strip_ansi(b), and for every
\* b with no ESC byte, strip_ansi(b) = b.
C13_StripIdempotent ==
    \A t \in Threads :
        pc[t] = "stripped" =>
            /\ strip_ansi(frame[t].text) = frame[t].text
            /\ ~HasEsc(frame[t].message) => frame[t].text = frame[t].message

\* "\x1b[mxm" came back as "xm", which has no ESC byte and which a second
\* pass leaves as it is
C13_Witness ==
    /\ pc["t1"] = "stripped"
    /\ frame["t1"].message = <<ESC, 91, ByteM, 120, ByteM>>
    /\ frame["t1"].text = <<120, ByteM>>
    /\ strip_ansi(frame["t1"].text) = <<120, ByteM>>

\* byte i of b belongs to an escape sequence: it is an ESC, or an ESC stands
\* before it with no 'm' between the two
InEscape(b, i) ==
    \/ b[i] = ESC
    \/ \E j \in 1..(i - 1) :
          /\ b[j] = ESC
          /\ \A k \in (j + 1)..(i - 1) : b[k] # ByteM

\* b without the bytes of its escape sequences, the others in their order
WithoutEscapes(b) ==
    LET idx == SelectSeq([i \in 1..Len(b) |-> i], LAMBDA i : ~InEscape(b, i))
    IN  [k \in 1..Len(idx) |-> b[idx[k]]]

\* the places of b where an ESC stands that no 'm' follows
Unterminated(b) ==
    {j \in 1..Len(b) : b[j] = ESC /\ \A k \in (j + 1)..Len(b) : b[k] # ByteM}

\* C14: strip_ansi returns the input with every escape sequence (from an ESC
\* byte up to and including the next 'm') removed and all other bytes kept
\* in their order; when an ESC is never followed by 'm', every byte from
\* that ESC to the end is dropped; the result never contains an ESC byte.
C14_StripContract ==
    \A t \in Threads :
        pc[t] = "stripped" =>
            LET b == frame[t].message
            IN  /\ frame[t].text = WithoutEscapes(b)
                /\ \A j \in Unterminated(b) :
                      frame[t].text = WithoutEscapes(SubSeq(b, 1, j - 1))
                /\ ~HasEsc(frame[t].text)

\* "x\x1bmm\x1b": an escape that ends at the first 'm' and one that never
\* ends
C14_Witness ==
    /\ pc["t1"] = "stripped"
    /\ frame["t1"].message = <<120, ESC, ByteM, ByteM, ESC>>
    /\ frame["t1"].text = <<120, ByteM>>
    /\ Unterminated(frame["t1"].message) = {5}

\* the handles cloned from h1, the sink "mem1" being the clone in the slot
ClonesOfH1 == {"h1", "h2"}

\* what was written to store b since its last clear, each buffer stripped
\* on its own, in write order
StrippedSinceClear(b) ==
    Flatten([i \in 1..Len(Written(b)) |-> strip_ansi(Written(b)[i].text)])

\* C15: all handles cloned from one memory sink share one buffer: after any
\* interleaving of writes through any handle (the clone installed as the
\* active sink included) and clears through any handle, contents() read
\* through every handle is the same text, the stripped bytes written since
\* the last clear; clear works whether or not the sink is still installed.
C15_SharedBuffer ==
    /\ \A h \in ClonesOfH1 :
          /\ contents(buffer(h)) = contents("mem1")
          /\ contents(buffer(h)) = StrippedSinceClear("mem1")
    /\ \A t \in Threads, h \in ClonesOfH1 :
          (pc[t] = "idle" /\ contents(buffer(h)) # <<>>) => ENABLED clear(t, h)

\* the installed clone has taken the line of an info call and thread t1 has
\* then written "\x1b[1mx" through h2: both are in the one buffer, and the
\* buffer of the other memory writer is empty
C15_Witness ==
    /\ pc["t1"] = "written"
    /\ frame["t1"].handle = "h2"
    /\ frame["t1"].message = Str_bold_x
    /\ Len(Written("mem1")) = 2
    /\ Written("mem1")[1].op = "info"
    /\ Written("mem1")[2].op = "write"
    /\ contents(buffer("h1")) = strip_ansi(Written("mem1")[1].text) \o Str_x
    /\ contents(buffer("h3")) = <<>>

\* a step of a log call, of whichever entry point, leaves the threshold as
\* it is
LoggingKeepsThreshold ==
    (\E t \in Threads : pc'[t] # pc[t]) => MAX_LEVEL' = MAX_LEVEL

\* C16: set_max_level and max_level round-trip: the threshold is Info before
\* any call, init() sets it to Info, and for each of the six levels L, after
\* set_max_level(L) or init_with_level(L), max_level() returns L until the
\* next set; no logging operation changes the threshold.
C16_MaxLevelRoundTrip ==
    /\ [](max_level = last_level /\ MAX_LEVEL = LevelUsize(last_level))
    /\ [][LoggingKeepsThreshold]_vars

\* the threshold was set to Off, and is still Off after two calls have
\* written their lines and returned
C16_Witness ==
    /\ last_level = "Off"
    /\ max_level = "Off"
    /\ ncalls = 2
    /\ AllIdle
    /\ stdout # <<>>
    /\ stderr # <<>>

\* some thread is inside a call, and no thread can take a step of its call
Deadlocked ==
    /\ ~AllIdle
    /\ \A t \in Threads : ~ENABLED RunStep(t)

\* C17: every public operation of the output state runs to completion:
\* under any interleaving of log calls, set_output, clear_output,
\* set_timestamp and clear_timestamp from several threads, with a sink whose
\* write and flush return, no deadlock state is reachable and no thread
\* waits forever: every call that has started returns.
C17_RunsToCompletion ==
    /\ []~Deadlocked
    /\ \A t \in Threads : (pc[t] # "idle") ~> (pc[t] = "idle")

\* thread t1 holds the sink lock with its line written while t2 waits for
\* that lock inside set_output
C17_Witness ==
    /\ pc["t1"] = "flush"
    /\ WRITER_lock = "t1"
    /\ pc["t2"] = "set_output"
    /\ ~ENABLED RunStep("t2")

\* no thread holds the sink lock and the timestamp lock at once
NeverBothLocks ==
    \A t \in Threads : ~(WRITER_lock = t /\ TIMESTAMP_lock = t)

\* while a thread is inside its write and flush, a set_timestamp or
\* clear_timestamp of another thread can take the timestamp lock and finish
TimestampSetterFree ==
    \A t, u \in Threads :
        (/\ pc[t] \in {"write_all", "flush"}
         /\ pc[u] \in {"set_timestamp", "clear_timestamp"})
        => ENABLED timestamp_replace(u)

\* while a thread holds the timestamp lock, a set_output or clear_output of
\* another thread can take the sink lock and finish
OutputSetterFree ==
    \A t, u \in Threads :
        (/\ TIMESTAMP_lock = t
         /\ pc[u] \in {"set_output", "clear_output"}
         /\ WRITER_lock \in {None, t})
        => ENABLED writer_replace(u)

\* a write_log call takes the sink lock with the timestamp lock released
ReleasedBeforeSink ==
    \A t \in Threads :
        (pc[t] = "writer_lock" /\ pc'[t] = "write_all") =>
            (TIMESTAMP_lock # t /\ TIMESTAMP_lock' # t)

\* C18: the sink lock and the timestamp-override lock are independent and
\* never held together: no thread holds both at once, a write_log call
\* releases the timestamp lock before it acquires the sink lock, so
\* set_timestamp and clear_timestamp can complete while another thread is
\* inside its write and flush, and set_output and clear_output can complete
\* while another thread holds the timestamp lock.
C18_LocksIndependent ==
    /\ [](NeverBothLocks /\ TimestampSetterFree /\ OutputSetterFree)
    /\ [][ReleasedBeforeSink]_vars

\* t1 holds the sink lock inside its write while t2, inside set_timestamp,
\* can take the timestamp lock
C18_Witness ==
    /\ pc["t1"] = "write_all"
    /\ WRITER_lock = "t1"
    /\ pc["t2"] = "set_timestamp"
    /\ TIMESTAMP_lock = None
    /\ ENABLED timestamp_replace("t2")

\* thread t's step is a write through a handle
IsWrite(t) == pc[t] = "idle" /\ pc'[t] = "written"

\* the write appended exactly the stripped buffer to the store of its
\* handle, changed no other store, and reported the length of the buffer
AppendedAndReported(t) ==
    LET h == frame'[t].handle
        buf == frame'[t].message
    IN  /\ store' = [store EXCEPT ![buffer(h)] = @ \o strip_ansi(buf)]
        /\ frame'[t].res = "ok"
        /\ frame'[t].ret = Some(Len(buf))

\* the write returned the error of the file, reported no length and
\* appended nothing
FailedOnFile(t) ==
    /\ frame'[t].handle = "f1"
    /\ frame'[t].res = "err"
    /\ frame'[t].ret = Nothing
    /\ store' = store

\* the stores of the memory sinks and of the file sink hold the buffers
\* that were written (to a memory sink: since its last clear), each
\* stripped on its own, in write order
StoresAreStrippedWrites ==
    \A b \in {"mem1", "mem2", "file1"} : store[b] = StrippedSinceClear(b)

IsLogWrite(t) == pc[t] = "log_write" /\ pc'[t] # "log_write"

\* the record's line went to the stream its level selects, the error stream
\* from Warn upwards and the standard stream below, and to no other
RoutedByLevel(t) ==
    IF LevelLeq("Warn", frame[t].rlevel)
    THEN stderr' = stderr \o frame[t].text /\ stdout' = stdout
    ELSE stdout' = stdout \o frame[t].text /\ stderr' = stderr

\* the write failed: the record is on neither stream, and the error stream
\* has the report of the failure when it took it
FailedAndReported(t) ==
    /\ stdout' = stdout
    /\ stderr' \in {stderr, stderr \o FailedText}

Spaces(n) == [i \in 1..n |-> SP]

\* the suffix " <file>:<line>" of a record that carries both, else nothing
Suffix(f) ==
    IF f.file # Nothing /\ f.line # Nothing
    THEN <<SP>> \o f.file[1] \o <<58>> \o Dec(f.line[1])
    ELSE <<>>

\* the line of the record in f with the level name as padded, under clock now
RecordLine(f, now, padded) ==
    format_timestamp(now) \o color(f.rlevel) \o padded \o Reset \o <<SP>>
      \o f.message \o Suffix(f) \o <<LF>>

\* the level name with spaces behind it up to 5 characters
NameThenSpaces(l) == as_str(l) \o Spaces(5 - Len(as_str(l)))

\* the level name with spaces in front of it up to 5 characters
SpacesThenName(l) == Spaces(5 - Len(as_str(l))) \o as_str(l)

\* C21 (as amended): the line log() produces for an enabled record is the
\* timestamp, the level color, the level name left-aligned in 5 characters
\* (spaces behind the name), the reset code, one space, the message, the
\* location suffix " <file>:<line>" and a newline; the suffix is present
\* exactly when the record carries both a file and a line.
C21_RecordLine ==
    \A t \in Threads :
        pc[t] = "log_write" =>
            /\ \E now \in Clock :
                  frame[t].text = RecordLine(frame[t], now, NameThenSpaces(frame[t].rlevel))
            /\ IF frame[t].file # Nothing /\ frame[t].line # Nothing
               THEN Contains(frame[t].text,
                             frame[t].message \o <<SP>> \o frame[t].file[1] \o <<58>>
                               \o Dec(frame[t].line[1]) \o <<LF>>)
               ELSE Contains(frame[t].text,
                             Reset \o <<SP>> \o frame[t].message \o <<LF>>)

\* a Warn record with a file and no line is about to be written: its line
\* has "WARN " and no location
C21_Witness ==
    /\ pc["t1"] = "log_write"
    /\ frame["t1"].rlevel = "Warn"
    /\ frame["t1"].file = Some(File_a)
    /\ frame["t1"].line = Nothing
    /\ Contains(frame["t1"].text, as_str("Warn") \o <<SP>> \o Reset \o <<SP>> \o Str_z \o <<LF>>)
    /\ ~Contains(frame["t1"].text, File_a)

\* C21 (as stated): the same line with the level name left-padded with
\* spaces to 5 characters (spaces in front of the name).
C21_Original ==
    \A t \in Threads :
        pc[t] = "log_write" =>
            \E now \in Clock :
                frame[t].text = RecordLine(frame[t], now, SpacesThenName(frame[t].rlevel))

IsDigit(c) == c \in 48..57

\* the number a text of decimal digits stands for
RECURSIVE NumberOf(_)
NumberOf(s) ==
    IF s = <<>> THEN 0 ELSE 10 * NumberOf(SubSeq(s, 1, Len(s) - 1)) + (s[Len(s)] - 48)

\* text is two, two, two and three digits with ':', ':' and '.' between them
IsHHMMSSmmm(text) ==
    /\ Len(text) = 12
    /\ text[3] = 58 /\ text[6] = 58 /\ text[9] = 46
    /\ \A i \in {1, 2, 4, 5, 7, 8, 10, 11, 12} : IsDigit(text[i])

\* C22: for every number of seconds since the epoch and every millisecond
\* value 0..999, the computed wall-clock timestamp has hours in 0..23,
\* minutes in 0..59, seconds in 0..59, with hours*3600 + minutes*60 +
\* seconds = secs mod 86400, and is rendered zero-padded as two, two, two
\* and three digits (HH:MM:SS.mmm).
C22_TimestampOfDay ==
    \A t \in Threads :
        pc[t] = "stamped" =>
            LET now == frame[t].now[1]
                text == frame[t].time
                hours == NumberOf(SubSeq(text, 1, 2))
                minutes == NumberOf(SubSeq(text, 4, 5))
                seconds == NumberOf(SubSeq(text, 7, 8))
                millis == NumberOf(SubSeq(text, 10, 12))
            IN  /\ IsHHMMSSmmm(text)
                /\ hours \in 0..23 /\ minutes \in 0..59 /\ seconds \in 0..59
                /\ hours * 3600 + minutes * 60 + seconds = now.secs % 86400
                /\ millis = now.millis
                /\ frame[t].text = text \o <<SP>>

\* the last second of a day of 2024, 19800 days after the epoch, at 999
\* milliseconds, is rendered "23:59:59.999"
C22_Witness ==
    /\ pc["t1"] = "stamped"
    /\ frame["t1"].now = Some([secs |-> 19800 * 86400 + 86399, millis |-> 999])
    /\ frame["t1"].time = <<50, 51, 58, 53, 57, 58, 53, 57, 46, 57, 57, 57>>

====
